---------------------------- MODULE Spec2Model ----------------------------
(***************************************************************************)
(* A model of the converter layer of asdf: the Converter capability check, *)
(* the validating ConverterProxy (asdf/extension/_converter.py), the       *)
(* discovery of resource-mapping plugins and the load path's handling of   *)
(* unrecognised tags.                                                      *)
(*                                                                         *)
(* Strings that are compared lexically (tag URIs) are sequences of small   *)
(* naturals, one per field (name, version); Python's sorted() on them is   *)
(* the lexicographic order of those sequences.  Objects live on heaps      *)
(* (sequences); an object's identity, id(x), is its index in its heap.     *)
(***************************************************************************)
EXTENDS Integers, Sequences, FiniteSets, TLC

VARIABLES
    delegates,    \* heap of the converter objects handed to ConverterProxy
    extensions,   \* heap of the extension objects handed to ConverterProxy
    proxies,      \* heap of the ConverterProxy objects constructed so far
    registry,     \* a Python set of proxies (insertion-ordered buckets)
    warnings,     \* the warnings emitted so far, oldest first
    construct,    \* the last call of ConverterProxy.__init__ and how it ended
    select,       \* the last call of ConverterProxy.select_tag and how it ended
    tree,         \* the tagged tree handed to the load path, and its flags
    loaded,       \* the result of the last load
    plugins,      \* the entry points discovery iterates over
    discovered    \* the result of the last discovery

vars == <<delegates, extensions, proxies, registry, warnings, construct,
          select, tree, loaded, plugins, discovered>>

-----------------------------------------------------------------------------
(* Bounds of the model. *)

\* most patterns a delegate declares in `tags`
MaxTags == 2
\* most entries a delegate declares in `types`
MaxTypes == 2
\* most tag definitions an extension declares
MaxExtTags == 2
\* most objects on a heap in the identity specification
MaxObjects == 2
\* most proxies constructed in the identity specification
MaxProxies == 3

\* most nodes of a tree handed to the load path
MaxNodes == 3
\* most entry points and elements together that discovery iterates over
MaxEntries == 5

SeqsUpTo(S, n) == UNION {[1..k -> S] : k \in 0..n}

Range(s) == {s[i] : i \in 1..Len(s)}

-----------------------------------------------------------------------------
(* Values. *)

\* the wildcard marker of a pattern field
Star == 0

\* the concrete tag URIs of the universe: <<name, version>>
TagURIs == {<<1, 1>>, <<1, 2>>, <<2, 1>>}

\* Python's None
None == <<>>

\* an element of a delegate's `tags`: a str (its fields) or something else
StrPattern(segs) == [isStr |-> TRUE, segs |-> segs]
NonStrPattern == [isStr |-> FALSE, segs |-> <<>>]
Patterns == {StrPattern(<<1, 1>>), StrPattern(<<1, Star>>),
             StrPattern(<<2, 1>>), NonStrPattern}

\* an element of a delegate's `types`: a type, a str, or something else
TypeValues == {[kind |-> "type", val |-> "Foo"],
               [kind |-> "str", val |-> "pkg.Foo"],
               [kind |-> "str", val |-> ""],
               [kind |-> "other", val |-> "42"]}

Required == {"tags", "types", "to_yaml_tree", "from_yaml_tree"}
Members == Required \cup {"select_tag"}

\* the objects select_tag is asked about
Objects == {"obj1", "obj2"}

-----------------------------------------------------------------------------
(* asdf.util.uri_match: a structural, left-to-right comparison of the       *)
(* fields, a wildcard field matching any value.                             *)
RECURSIVE uri_match(_, _)
uri_match(pattern, uri) ==
    IF pattern = <<>> \/ uri = <<>>
    THEN pattern = <<>> /\ uri = <<>>
    ELSE /\ (Head(pattern) = Star \/ Head(pattern) = Head(uri))
         /\ uri_match(Tail(pattern), Tail(uri))

(* str.__lt__: the lexicographic order of two strings. *)
RECURSIVE LexLess(_, _)
LexLess(s, t) ==
    IF t = <<>> THEN FALSE
    ELSE IF s = <<>> THEN TRUE
    ELSE IF Head(s) # Head(t) THEN Head(s) < Head(t)
    ELSE LexLess(Tail(s), Tail(t))

Smallest(S) == CHOOSE x \in S : \A y \in S \ {x} : LexLess(x, y)

Largest(S) == CHOOSE x \in S : \A y \in S \ {x} : LexLess(y, x)

\* a sort that orders descending
RECURSIVE SortedDescending(_)
SortedDescending(S) ==
    IF S = {} THEN <<>>
    ELSE LET x == Largest(S) IN <<x>> \o SortedDescending(S \ {x})

(* sorted(relevant_tags), line 191 *)
RECURSIVE sorted(_)
sorted(S) ==
    IF S = {} THEN <<>>
    ELSE LET x == Smallest(S) IN <<x>> \o sorted(S \ {x})

-----------------------------------------------------------------------------
(* Converter.__subclasshook__ *)

\* a hook that forgets from_yaml_tree
SubclassHookNoFrom(class_members) ==
    /\ "tags" \in class_members
    /\ "types" \in class_members
    /\ "to_yaml_tree" \in class_members

SubclassHook(class_members) ==
    /\ "tags" \in class_members
    /\ "types" \in class_members
    /\ "to_yaml_tree" \in class_members
    /\ "from_yaml_tree" \in class_members

(* isinstance(delegate, Converter), line 152 *)
IsConverter(d) == SubclassHook(d.members)

(* hasattr(delegate, "select_tag") *)
HasSelectTag(d) == "select_tag" \in d.members

\* the extension tags one pattern matches: the generator of line 167
Matching(pattern, ext) ==
    {ext.tags[i].tag_uri : i \in {j \in 1..Len(ext.tags) :
                                     uri_match(pattern, ext.tags[j].tag_uri)}}

\* a loop that skips a non-str pattern instead of raising
RECURSIVE TagLoopSkipping(_, _, _)
TagLoopSkipping(tags, ext, relevant_tags) ==
    IF tags = <<>> THEN [raised |-> "none", relevant_tags |-> relevant_tags]
    ELSE IF Head(tags).isStr
    THEN TagLoopSkipping(Tail(tags), ext,
                         relevant_tags \cup Matching(Head(tags).segs, ext))
    ELSE TagLoopSkipping(Tail(tags), ext, relevant_tags)

(* the loop of lines 164-170 over delegate.tags *)
RECURSIVE TagLoop(_, _, _)
TagLoop(tags, ext, relevant_tags) ==
    IF tags = <<>> THEN [raised |-> "none", relevant_tags |-> relevant_tags]
    ELSE IF Head(tags).isStr
    THEN TagLoop(Tail(tags), ext,
                 relevant_tags \cup Matching(Head(tags).segs, ext))
    ELSE [raised |-> "TypeError", relevant_tags |-> relevant_tags]

\* the exemption read off the extension's legacy flag
LegacyByExtension(d, ext) == ext.legacy

(* Converter in delegate.__class__.__mro__, line 175 *)
LegacyExempt(d, ext) == d.mro_converter

\* a constructor that always inspects the types
SkipTypesNever(tags, d) == FALSE

(* not len(self._tags) and not hasattr(delegate, "select_tag"), line 195 *)
SkipTypes(tags, d) == Len(tags) = 0 /\ ~HasSelectTag(d)

\* a check that takes only type objects
IsValidTypeOnlyType(typ) == typ.kind = "type"

(* isinstance(typ, (str, type)), line 200 *)
IsValidType(typ) == typ.kind \in {"str", "type"}

(* the loop of lines 199-204 over delegate.types *)
RECURSIVE TypeLoop(_, _)
TypeLoop(types, acc) ==
    IF types = <<>> THEN [raised |-> "none", types |-> acc]
    ELSE IF IsValidType(Head(types))
    THEN TypeLoop(Tail(types), Append(acc, Head(types)))
    ELSE [raised |-> "TypeError", types |-> acc]

(* ConverterProxy.__init__(delegate, extension): how the call ends.  di and *)
(* ei are the identities of the two objects.  `read` lists the delegate    *)
(* properties the call evaluated, `warned` the warnings it emitted.        *)
Outcome(di, ei, raised, read, warned, tags, types) ==
    [called |-> TRUE, delegate |-> di, extension |-> ei, raised |-> raised,
     read |-> read, warned |-> warned, tags |-> tags, types |-> types]

ConverterProxyInit(d, di, ext, ei) ==
    IF ~IsConverter(d)
    THEN Outcome(di, ei, "TypeError", {}, <<>>, <<>>, <<>>)
    ELSE
    LET loop == TagLoop(d.tags, ext, {})
        relevant_tags == loop.relevant_tags
        many == Cardinality(relevant_tags) > 1 /\ ~HasSelectTag(d)
        warned == IF many /\ LegacyExempt(d, ext)
                  THEN <<"AsdfWarning">> ELSE <<>>
        tags == sorted(relevant_tags)
        typed == TypeLoop(d.types, <<>>)
    IN  IF loop.raised # "none"
        THEN Outcome(di, ei, "TypeError", {"tags"}, <<>>, <<>>, <<>>)
        ELSE IF many /\ ~LegacyExempt(d, ext)
        THEN Outcome(di, ei, "RuntimeError", {"tags"}, <<>>, <<>>, <<>>)
        ELSE IF SkipTypes(tags, d)
        THEN Outcome(di, ei, "none", {"tags"}, warned, tags, <<>>)
        ELSE IF typed.raised # "none"
        THEN Outcome(di, ei, "TypeError", {"tags", "types"}, warned, <<>>, <<>>)
        ELSE Outcome(di, ei, "none", {"tags", "types"}, warned, tags,
                     typed.types)

\* the proxy object a successful call leaves
ProxyOf(out) ==
    [class |-> "ConverterProxy",
     _delegate |-> out.delegate, _extension |-> out.extension,
     _tags |-> out.tags, _types |-> out.types]

NoConstruct ==
    [Outcome(0, 0, "none", {}, <<>>, <<>>, <<>>) EXCEPT !.called = FALSE]

-----------------------------------------------------------------------------
(* ConverterProxy.select_tag(obj, ctx).  `ret` is what the delegate's own   *)
(* select_tag answers when it has one: any tag, or None.                   *)
Selected(pi, obj, raised, result, delegated, args) ==
    [called |-> TRUE, proxy |-> pi, obj |-> obj, raised |-> raised,
     result |-> result, delegated |-> delegated, args |-> args]

\* a default that answers the last tag
DefaultTagLast(tags) ==
    IF Len(tags) = 0 THEN [raised |-> "IndexError", result |-> None]
    ELSE [raised |-> "none", result |-> tags[Len(tags)]]

(* return self._tags[0], line 248 *)
DefaultTag(tags) ==
    IF Len(tags) = 0 THEN [raised |-> "IndexError", result |-> None]
    ELSE [raised |-> "none", result |-> tags[1]]

select_tag(p, pi, d, obj, ret) ==
    IF ~HasSelectTag(d)
    THEN LET r == DefaultTag(p._tags)
         IN  Selected(pi, obj, r.raised, r.result, FALSE, <<>>)
    ELSE Selected(pi, obj, "none", ret, TRUE, <<obj, p._tags>>)

NoSelect == [Selected(0, "obj1", "none", None, FALSE, <<>>)
             EXCEPT !.called = FALSE]

-----------------------------------------------------------------------------
(* ConverterProxy.__eq__ and __hash__, and the set built on them. *)

\* an equality by the delegates' and the extensions' values
ProxyEqByValue(self, other) ==
    IF other.class = "ConverterProxy"
    THEN /\ delegates[other._delegate] = delegates[self._delegate]
         /\ extensions[other._extension] = extensions[self._extension]
    ELSE FALSE

ProxyEq(self, other) ==
    IF other.class = "ConverterProxy"
    THEN other._delegate = self._delegate /\ other._extension = self._extension
    ELSE FALSE

\* hash((id(self.delegate), id(self.extension))): a tuple's hash, which may
\* collide
ProxyHash(self) == (self._delegate * 31 + self._extension) % 4

(* set.add: keep an element unless one with its hash and equal to it is in *)
SetAdd(set, p) ==
    IF \E i \in 1..Len(set) : ProxyHash(set[i]) = ProxyHash(p) /\ ProxyEq(set[i], p)
    THEN set
    ELSE Append(set, p)

-----------------------------------------------------------------------------
(* The inputs. *)

Delegate(members, mro, tags, types) ==
    [members |-> members, mro_converter |-> mro,
     tags |-> IF "tags" \in members THEN tags ELSE <<>>,
     types |-> IF "types" \in members THEN types ELSE <<>>]

FewTagLists == {<<>>, <<StrPattern(<<1, 1>>)>>, <<StrPattern(<<1, Star>>)>>,
                <<NonStrPattern>>}

FewTypeLists == {<<>>, <<[kind |-> "type", val |-> "Foo"]>>,
                 <<[kind |-> "other", val |-> "42"]>>}

\* delegates with all four members, every list of patterns
TagFamily ==
    {Delegate(m, c, t, y) : m \in {Required, Members}, c \in BOOLEAN,
                            t \in SeqsUpTo(Patterns, MaxTags), y \in FewTypeLists}

\* delegates with all four members, every list of types
TypeFamily ==
    {Delegate(m, c, t, y) : m \in {Required, Members}, c \in BOOLEAN,
                            t \in FewTagLists, y \in SeqsUpTo(TypeValues, MaxTypes)}

\* delegates of every shape; a class that inherits Converter has the four
ShapeFamily ==
    {Delegate(m, FALSE, t, y) : m \in SUBSET Members,
                                t \in FewTagLists, y \in FewTypeLists}

DelegateInputs == TagFamily \cup TypeFamily \cup ShapeFamily

IsInjective(s) == \A i, j \in 1..Len(s) : s[i] = s[j] => i = j

TagDefinition(uri) == [tag_uri |-> uri]

ExtensionInputs ==
    {[tags |-> [i \in 1..Len(t) |-> TagDefinition(t[i])], legacy |-> l] :
        t \in {s \in SeqsUpTo(TagURIs, MaxExtTags) : IsInjective(s)},
        l \in BOOLEAN}

-----------------------------------------------------------------------------
(* The load path: a tagged tree to objects, children before their parent.  *)

NoTag == ""
KnownTags == {"core/ndarray-1.0.0"}
UnknownTags == {"custom/undefined_tag-1.0.0", "custom/also_undefined-1.3.0"}
TreeTags == {NoTag} \cup KnownTags \cup UnknownTags

\* a node: a scalar, or a sequence or mapping of nodes (a mapping's values,
\* in the order of its keys)
Node(tag, kind, items) == [tag |-> tag, kind |-> kind, items |-> items]

RECURSIVE TreesOfSize(_), ForestsOfSize(_)
ForestsOfSize(m) ==
    IF m = 0 THEN {<<>>}
    ELSE UNION {LET first == TreesOfSize(k)
                    rest == ForestsOfSize(m - k)
                IN  {<<t>> \o f : t \in first, f \in rest} : k \in 1..m}

TreesOfSize(n) ==
    IF n = 1 THEN {Node(tag, "scalar", <<>>) : tag \in TreeTags}
    ELSE {Node(tag, kind, f) : tag \in TreeTags, kind \in {"sequence", "mapping"},
                               f \in ForestsOfSize(n - 1)}

TreeInputs == UNION {TreesOfSize(n) : n \in 1..MaxNodes}

\* a native value: built by the converter of tag `by`, or raw (by = NoTag)
Value(by, kind, items) == [by |-> by, kind |-> kind, items |-> items]

\* a warning for every occurrence of an unrecognised tag
WarnEveryTime(tag, ignore_unrecognized_tag, warned) ==
    IF ignore_unrecognized_tag THEN warned ELSE Append(warned, tag)

\* "<tag> is not recognized, converting to raw Python data structure", once
\* per tag and pass, unless ignore_unrecognized_tag
WarnUnrecognized(tag, ignore_unrecognized_tag, warned) ==
    IF ignore_unrecognized_tag \/ tag \in Range(warned)
    THEN warned
    ELSE Append(warned, tag)

RECURSIVE FromTreeNode(_, _, _), FromTreeItems(_, _, _)
FromTreeItems(items, ignore_unrecognized_tag, warned) ==
    IF items = <<>> THEN [values |-> <<>>, warned |-> warned]
    ELSE LET first == FromTreeNode(Head(items), ignore_unrecognized_tag, warned)
             rest == FromTreeItems(Tail(items), ignore_unrecognized_tag,
                                   first.warned)
         IN  [values |-> <<first.value>> \o rest.values, warned |-> rest.warned]

FromTreeNode(node, ignore_unrecognized_tag, warned) ==
    LET children == FromTreeItems(node.items, ignore_unrecognized_tag, warned)
        raw == Value(NoTag, node.kind, children.values)
    IN  IF node.tag = NoTag
        THEN [value |-> raw, warned |-> children.warned]
        ELSE IF node.tag \in KnownTags
        THEN [value |-> Value(node.tag, node.kind, children.values),
              warned |-> children.warned]
        ELSE [value |-> raw,
              warned |-> WarnUnrecognized(node.tag, ignore_unrecognized_tag,
                                          children.warned)]

NoTree == [present |-> FALSE, root |-> Node(NoTag, "scalar", <<>>)]

-----------------------------------------------------------------------------
(* The discovery of plugins: asdf.entry_points.get_resource_mappings.      *)

Packages == {[name |-> "asdf", version |-> "2.8.0"],
             [name |-> "other", version |-> "0.1"]}

Errors == {[type |-> "Exception", msg |-> "NOPE"],
           [type |-> "ValueError", msg |-> "bad"]}

NoError == [type |-> "", msg |-> ""]

\* what the proxy's constructor raises for a non-conforming element
NotAMapping ==
    [type |-> "TypeError",
     msg |-> "Resource mapping must implement the Mapping interface"]

\* an entry point: its distribution, and what its factory does when called
EntryPoint(dist, raises, error, elements) ==
    [dist |-> dist, raises |-> raises, error |-> error, elements |-> elements]

\* an element a factory returns: a mapping or not
Elements == {[conforming |-> TRUE], [conforming |-> FALSE]}

\* the entry points that bring n - 1 elements
EntryPointsOfSize(n) ==
    {EntryPoint(p, FALSE, NoError, els) :
        p \in Packages, els \in [1..(n - 1) -> Elements]}
    \cup (IF n = 1
          THEN {EntryPoint(p, TRUE, e, <<>>) : p \in Packages, e \in Errors}
          ELSE {})

\* what an entry point adds to the work of discovery: itself and its elements
SizeOf(ep) == 1 + Len(ep.elements)

RECURSIVE TotalSize(_)
TotalSize(eps) == IF eps = <<>> THEN 0 ELSE SizeOf(Head(eps)) + TotalSize(Tail(eps))

\* the warning _handle_error emits
PluginWarning(dist, error) ==
    [package_name |-> dist.name, package_version |-> dist.version,
     type |-> error.type, msg |-> error.msg]

\* ResourceMappingProxy(element, package_name, package_version); the element
\* is named by its place, <<entry point, position>>
ResourceMappingProxy(at, dist) ==
    [element |-> at, package_name |-> dist.name,
     package_version |-> dist.version]

\* the loop over the elements of entry point i, from position j
RECURSIVE ElementLoop(_, _, _, _, _)
ElementLoop(elements, j, i, dist, acc) ==
    IF j > Len(elements) THEN acc
    ELSE IF elements[j].conforming
    THEN ElementLoop(elements, j + 1, i, dist,
                     [acc EXCEPT !.results =
                          Append(@, ResourceMappingProxy(<<i, j>>, dist))])
    ELSE ElementLoop(elements, j + 1, i, dist,
                     [acc EXCEPT !.warned =
                          Append(@, PluginWarning(dist, NotAMapping))])

\* a loop that gives up at the first factory that raises
RECURSIVE EntryPointLoopBreaking(_, _, _)
EntryPointLoopBreaking(eps, i, acc) ==
    IF i > Len(eps) THEN acc
    ELSE IF eps[i].raises
    THEN [acc EXCEPT !.warned = Append(@, PluginWarning(eps[i].dist, eps[i].error))]
    ELSE EntryPointLoopBreaking(eps, i + 1,
                                ElementLoop(eps[i].elements, 1, i, eps[i].dist, acc))

\* the loop over the entry points, from entry point i
RECURSIVE EntryPointLoop(_, _, _)
EntryPointLoop(eps, i, acc) ==
    IF i > Len(eps) THEN acc
    ELSE IF eps[i].raises
    THEN EntryPointLoop(eps, i + 1,
                        [acc EXCEPT !.warned =
                             Append(@, PluginWarning(eps[i].dist, eps[i].error))])
    ELSE EntryPointLoop(eps, i + 1,
                        ElementLoop(eps[i].elements, 1, i, eps[i].dist, acc))

get_resource_mappings(eps) ==
    EntryPointLoop(eps, 1, [results |-> <<>>, warned |-> <<>>])

NoDiscovery == [called |-> FALSE, results |-> <<>>, warned |-> <<>>]

-----------------------------------------------------------------------------
(* The actions. *)

ConvUnchanged == UNCHANGED <<tree, loaded, plugins, discovered>>

NewDelegate(d) ==
    /\ delegates' = Append(delegates, d)
    /\ UNCHANGED <<extensions, proxies, registry, warnings, construct, select>>
    /\ ConvUnchanged

NewExtension(e) ==
    /\ extensions' = Append(extensions, e)
    /\ UNCHANGED <<delegates, proxies, registry, warnings, construct, select>>
    /\ ConvUnchanged

\* ConverterProxy(delegate, extension)
Construct(di, ei) ==
    LET out == ConverterProxyInit(delegates[di], di, extensions[ei], ei)
    IN  /\ construct' = out
        /\ warnings' = warnings \o out.warned
        /\ proxies' = IF out.raised = "none"
                      THEN Append(proxies, ProxyOf(out)) ELSE proxies
        /\ UNCHANGED <<delegates, extensions, registry, select>>
        /\ ConvUnchanged

\* proxy.select_tag(obj, ctx)
SelectTag(pi, obj, ret) ==
    /\ select' = select_tag(proxies[pi], pi, delegates[proxies[pi]._delegate],
                            obj, ret)
    /\ UNCHANGED <<delegates, extensions, proxies, registry, warnings, construct>>
    /\ ConvUnchanged

\* converters.add(ConverterProxy(delegate, extension))
Register(di, ei) ==
    LET out == ConverterProxyInit(delegates[di], di, extensions[ei], ei)
    IN  /\ construct' = out
        /\ warnings' = warnings \o out.warned
        /\ proxies' = IF out.raised = "none"
                      THEN Append(proxies, ProxyOf(out)) ELSE proxies
        /\ registry' = IF out.raised = "none"
                       THEN SetAdd(registry, ProxyOf(out)) ELSE registry
        /\ UNCHANGED <<delegates, extensions, select>>
        /\ ConvUnchanged

Init ==
    /\ delegates = <<>>
    /\ extensions = <<>>
    /\ proxies = <<>>
    /\ registry = <<>>
    /\ warnings = <<>>
    /\ construct = NoConstruct
    /\ select = NoSelect
    /\ tree = NoTree
    /\ loaded = <<>>
    /\ plugins = <<>>
    /\ discovered = NoDiscovery

(* One converter registered under one extension, then asked for tags. *)
Next ==
    \/ Len(delegates) = 0 /\ \E d \in DelegateInputs : NewDelegate(d)
    \/ Len(extensions) = 0 /\ \E e \in ExtensionInputs : NewExtension(e)
    \/ ~construct.called /\
          \E di \in 1..Len(delegates), ei \in 1..Len(extensions) :
              Construct(di, ei)
    \/ \E pi \in 1..Len(proxies), obj \in Objects, ret \in TagURIs \cup {None} :
          SelectTag(pi, obj, ret)

Spec == Init /\ [][Next]_vars

-----------------------------------------------------------------------------
(* What the claims speak of, stated on the last construction. *)

TheDelegate == delegates[construct.delegate]
TheExtension == extensions[construct.extension]

ExtensionURIs(ext) == {ext.tags[i].tag_uri : i \in 1..Len(ext.tags)}

AllStr(d) == \A i \in 1..Len(d.tags) : d.tags[i].isStr

\* the extension's tags that match at least one declared pattern
MatchedTags(d, ext) ==
    {u \in ExtensionURIs(ext) :
        \E i \in 1..Len(d.tags) : d.tags[i].isStr /\ uri_match(d.tags[i].segs, u)}

TypesAllStrOrType(d) ==
    \A i \in 1..Len(d.types) : d.types[i].kind \in {"str", "type"}

\* a native type or a non-empty name
TypesAllAsSpecified(d) ==
    \A i \in 1..Len(d.types) :
        \/ d.types[i].kind = "type"
        \/ d.types[i].kind = "str" /\ d.types[i].val # ""

\* a conforming delegate with str patterns only, several resolved tags and
\* no select_tag
ManyTagsNoSelect ==
    /\ construct.called
    /\ Required \subseteq TheDelegate.members
    /\ AllStr(TheDelegate)
    /\ Cardinality(MatchedTags(TheDelegate, TheExtension)) > 1
    /\ ~HasSelectTag(TheDelegate)

\* a conforming delegate with str patterns only, no resolved tag and no
\* select_tag
NoTagsNoSelect ==
    /\ construct.called
    /\ Required \subseteq TheDelegate.members
    /\ AllStr(TheDelegate)
    /\ MatchedTags(TheDelegate, TheExtension) = {}
    /\ ~HasSelectTag(TheDelegate)

Failed(kind) == construct.raised = kind /\ proxies = <<>>

Succeeded == construct.raised = "none" /\ Len(proxies) = 1

\* C1 as stated: with several resolved tags and no select_tag, and valid
\* types, a non-legacy extension makes the construction fail with the
\* configuration error, a legacy one lets it succeed with one warning.
C1_AsStated ==
    ManyTagsNoSelect /\ TypesAllStrOrType(TheDelegate) =>
        IF TheExtension.legacy
        THEN Succeeded /\ Len(warnings) = 1
        ELSE Failed("RuntimeError")

\* C1 amended: with several resolved tags and no select_tag, what decides is
\* whether the delegate's class inherits Converter, not the extension's
\* legacy flag.  A class that does not: RuntimeError, no proxy, no warning.
\* A class that does: exactly one AsdfWarning; then, the declared types being
\* str or type, the construction succeeds and select_tag answers the first of
\* the sorted resolved tags (otherwise TypeError).
C1_LegacyBySubclass ==
    ManyTagsNoSelect =>
        IF ~TheDelegate.mro_converter
        THEN Failed("RuntimeError") /\ warnings = <<>>
        ELSE /\ warnings = <<"AsdfWarning">>
             /\ IF TypesAllStrOrType(TheDelegate)
                THEN /\ Succeeded
                     /\ select.called =>
                          /\ select.raised = "none"
                          /\ select.result =
                               Smallest(MatchedTags(TheDelegate, TheExtension))
                ELSE Failed("TypeError")

C1_Witness ==
    /\ ManyTagsNoSelect
    /\ TheDelegate.mro_converter
    /\ ~TheExtension.legacy
    /\ Succeeded
    /\ select.called
    /\ select.result = <<1, 1>>
    /\ proxies[1]._tags = <<<<1, 1>>, <<1, 2>>>>

\* C4 as stated: with no resolved tag and no select_tag the proxy has no
\* tags and its types contain every type the delegate declares.
C4_AsStated ==
    NoTagsNoSelect /\ Succeeded =>
        /\ proxies[1]._tags = <<>>
        /\ Range(TheDelegate.types) \subseteq Range(proxies[1]._types)

\* C4 amended: with no resolved tag and no select_tag the construction
\* succeeds and the proxy has no tags and no types: the delegate's types are
\* not read, so the proxy is not indexed by type either.
C4_NoTagsNoTypes ==
    NoTagsNoSelect =>
        /\ Succeeded
        /\ proxies[1]._tags = <<>>
        /\ proxies[1]._types = <<>>
        /\ "types" \notin construct.read

C4_Witness ==
    /\ NoTagsNoSelect
    /\ Succeeded
    /\ Len(TheDelegate.types) = 2
    /\ TheDelegate.tags # <<>>
    /\ proxies[1]._types = <<>>

\* the construction got as far as inspecting the types
ReachesTypes ==
    /\ construct.called
    /\ Required \subseteq TheDelegate.members
    /\ AllStr(TheDelegate)
    /\ ~(ManyTagsNoSelect /\ ~TheDelegate.mro_converter)

\* C5 as stated: a declared type that is neither a type nor a non-empty
\* name makes the construction fail with TypeError, for every delegate.
C5_AsStated ==
    ReachesTypes /\ ~TypesAllAsSpecified(TheDelegate) => Failed("TypeError")

\* C5 amended: the declared types are validated for every delegate that has
\* a resolved tag or supplies select_tag (and has passed the checks of its
\* tags); each must be a type or a str, the empty str included, and any
\* other value makes the construction fail with TypeError; the types that
\* pass are kept in order.  With no resolved tag and no select_tag the types
\* are not validated.
C5_TypesStrOrType ==
    ReachesTypes =>
        IF NoTagsNoSelect
        THEN Succeeded
        ELSE IF TypesAllStrOrType(TheDelegate)
        THEN Succeeded /\ proxies[1]._types = TheDelegate.types
        ELSE Failed("TypeError")

C5_Witness ==
    /\ ReachesTypes
    /\ ~NoTagsNoSelect
    /\ Len(TheDelegate.types) = 2
    /\ TheDelegate.types[1].kind = "type"
    /\ TheDelegate.types[2].kind = "other"
    /\ Failed("TypeError")

\* the proxy and the delegate of the last select_tag call
SelectProxy == proxies[select.proxy]
SelectDelegate == delegates[SelectProxy._delegate]

Ascending(s) == \A i \in 1..(Len(s) - 1) : LexLess(s[i], s[i + 1])

\* C7: after a successful construction the proxy's tags are exactly the
\* extension's tags that match a declared pattern, each once, in ascending
\* lexical order.
C7_TagsResolvedSorted ==
    construct.called /\ Succeeded =>
        /\ Range(proxies[1]._tags) = MatchedTags(TheDelegate, TheExtension)
        /\ Range(proxies[1]._tags) \subseteq ExtensionURIs(TheExtension)
        /\ Ascending(proxies[1]._tags)

\* the extension declares its tags in descending order, two patterns overlap
C7_Witness ==
    /\ construct.called
    /\ Succeeded
    /\ Len(TheExtension.tags) >= 2
    /\ LexLess(TheExtension.tags[2].tag_uri, TheExtension.tags[1].tag_uri)
    /\ Len(TheDelegate.tags) = 2
    /\ TheDelegate.tags[1] = StrPattern(<<1, Star>>)
    /\ TheDelegate.tags[2] = StrPattern(<<1, 1>>)
    /\ Len(proxies[1]._tags) = 2

\* C8: a non-str pattern anywhere in the declared tags makes the
\* construction fail with TypeError: no proxy, and neither the check of
\* several tags (no RuntimeError, no warning) nor the types were reached.
C8_NonStrPatternRejected ==
    construct.called /\ ~AllStr(TheDelegate) =>
        /\ Failed("TypeError")
        /\ warnings = <<>>
        /\ "types" \notin construct.read

\* the non-str pattern is last, after a pattern that resolves to two tags,
\* and the types are invalid too
C8_Witness ==
    /\ construct.called
    /\ Required \subseteq TheDelegate.members
    /\ ~HasSelectTag(TheDelegate)
    /\ Len(TheDelegate.tags) = 2
    /\ TheDelegate.tags[1] = StrPattern(<<1, Star>>)
    /\ ~TheDelegate.tags[2].isStr
    /\ Cardinality(MatchedTags(TheDelegate, TheExtension)) = 2
    /\ ~TypesAllStrOrType(TheDelegate)
    /\ Failed("TypeError")

\* C10: a delegate is accepted exactly when its class has the four members
\* tags, types, to_yaml_tree and from_yaml_tree, inheriting Converter or not,
\* with select_tag or not; one lacking any of them is rejected with TypeError
\* before its tags or types are read.
C10_DuckTyped ==
    construct.called =>
        IF Required \subseteq TheDelegate.members
        THEN "tags" \in construct.read
        ELSE Failed("TypeError") /\ construct.read = {}

C10_Witness ==
    /\ construct.called
    /\ TheDelegate.members = Members \ {"from_yaml_tree"}
    /\ TheDelegate.tags # <<>>
    /\ Failed("TypeError")
    /\ construct.read = {}

-----------------------------------------------------------------------------
(* Several converters and extensions, their proxies collected in a set. *)

EqDelegateInputs ==
    {Delegate(Required, FALSE, <<StrPattern(<<1, 1>>)>>, <<>>),
     Delegate(Members, FALSE, <<StrPattern(<<1, Star>>)>>, <<>>)}

EqExtensionInputs ==
    {[tags |-> <<TagDefinition(<<1, 1>>)>>, legacy |-> FALSE]}

NextEq ==
    \/ Len(delegates) < MaxObjects /\
          \E d \in EqDelegateInputs : NewDelegate(d)
    \/ Len(extensions) < MaxObjects /\
          \E e \in EqExtensionInputs : NewExtension(e)
    \/ Len(proxies) < MaxProxies /\
          \E di \in 1..Len(delegates), ei \in 1..Len(extensions) :
              Register(di, ei)

SpecEq == Init /\ [][NextEq]_vars

Wrapped(p) == <<p._delegate, p._extension>>

\* an object that is no ConverterProxy and has a proxy's attributes
LookAlike(p) == [p EXCEPT !.class = "object"]

\* C9: two proxies are equal exactly when they wrap the identical delegate
\* and the identical extension, whatever the values of these; a proxy equals
\* no object of another class; equal proxies have equal hashes; a set of
\* proxies holds each (delegate, extension) pair that was added exactly once.
C9_EqualityIsIdentity ==
    /\ \A i, j \in 1..Len(proxies) :
          /\ ProxyEq(proxies[i], proxies[j])
                <=> Wrapped(proxies[i]) = Wrapped(proxies[j])
          /\ ProxyEq(proxies[i], proxies[j])
                => ProxyHash(proxies[i]) = ProxyHash(proxies[j])
          /\ ~ProxyEq(proxies[i], LookAlike(proxies[j]))
    /\ \A i, j \in 1..Len(registry) :
          Wrapped(registry[i]) = Wrapped(registry[j]) => i = j
    /\ {Wrapped(registry[i]) : i \in 1..Len(registry)}
          = {Wrapped(proxies[i]) : i \in 1..Len(proxies)}

\* two delegates of one value and two colliding hashes in the set, and a
\* pair added twice
C9_Witness ==
    /\ Len(proxies) = 3
    /\ Len(registry) = 2
    /\ delegates[registry[1]._delegate] = delegates[registry[2]._delegate]
    /\ registry[1]._delegate # registry[2]._delegate
    /\ ProxyHash(registry[1]) = ProxyHash(registry[2])

-----------------------------------------------------------------------------
(* A file is parsed, then opened with and without ignore_unrecognized_tag. *)

OtherUnchanged ==
    UNCHANGED <<delegates, extensions, proxies, registry, construct, select>>

\* the YAML parser hands over the tagged tree
Parse(t) ==
    /\ tree' = [present |-> TRUE, root |-> t]
    /\ UNCHANGED <<loaded, warnings, plugins, discovered>>
    /\ OtherUnchanged

\* asdf.open(buff, ignore_unrecognized_tag=...)
Open(ignore_unrecognized_tag) ==
    /\ tree.present
    /\ \A k \in 1..Len(loaded) :
          loaded[k].ignore_unrecognized_tag # ignore_unrecognized_tag
    /\ LET out == FromTreeNode(tree.root, ignore_unrecognized_tag, <<>>)
       IN  /\ loaded' = Append(loaded,
                   [ignore_unrecognized_tag |-> ignore_unrecognized_tag,
                    value |-> out.value, warned |-> out.warned])
           /\ warnings' = warnings \o out.warned
    /\ UNCHANGED <<tree, plugins, discovered>>
    /\ OtherUnchanged

NextTree ==
    \/ ~tree.present /\ \E t \in TreeInputs : Parse(t)
    \/ \E flag \in BOOLEAN : Open(flag)

SpecTree == Init /\ [][NextTree]_vars

\* the tree with the tags that have no converter dropped
RECURSIVE Untagged(_)
Untagged(node) ==
    Value(IF node.tag \in KnownTags THEN node.tag ELSE NoTag, node.kind,
          [i \in 1..Len(node.items) |-> Untagged(node.items[i])])

\* the tags of the tree that have no converter
RECURSIVE Unresolved(_)
Unresolved(node) ==
    (IF node.tag \in UnknownTags THEN {node.tag} ELSE {})
    \cup UNION {Unresolved(node.items[i]) : i \in 1..Len(node.items)}

\* C2: a load of a tree with unrecognised tags gives the tree's raw
\* structure with those tags dropped and the recognised nodes converted, and
\* one warning for each distinct unrecognised tag; with
\* ignore_unrecognized_tag the value is the same and there is no warning.
C2_UnknownTagsLoadRaw ==
    \A k \in 1..Len(loaded) :
        /\ loaded[k].value = Untagged(tree.root)
        /\ IF loaded[k].ignore_unrecognized_tag
           THEN loaded[k].warned = <<>>
           ELSE /\ Range(loaded[k].warned) = Unresolved(tree.root)
                /\ IsInjective(loaded[k].warned)

\* an unrecognised tag twice, above a recognised node, loaded both ways
C2_Witness ==
    /\ Len(loaded) = 2
    /\ tree.root.tag \in UnknownTags
    /\ Len(tree.root.items) = 2
    /\ tree.root.items[1].tag = tree.root.tag
    /\ tree.root.items[2].tag \in KnownTags
    /\ ~loaded[1].ignore_unrecognized_tag
    /\ loaded[1].warned = <<tree.root.tag>>
    /\ loaded[1].value.items[2].by \in KnownTags
    /\ loaded[2].value = loaded[1].value
    /\ warnings = <<tree.root.tag>>

-----------------------------------------------------------------------------
(* Plugins are installed, then discovered. *)

\* a package registers an entry point
Install(ep) ==
    /\ plugins' = Append(plugins, ep)
    /\ UNCHANGED <<tree, loaded, warnings, discovered>>
    /\ OtherUnchanged

\* entry_points.get_resource_mappings()
Discover ==
    /\ ~discovered.called
    /\ LET out == get_resource_mappings(plugins)
       IN  /\ discovered' = [called |-> TRUE, results |-> out.results,
                             warned |-> out.warned]
           /\ warnings' = warnings \o out.warned
    /\ UNCHANGED <<tree, loaded, plugins>>
    /\ OtherUnchanged

NextDiscovery ==
    \/ ~discovered.called /\
          \E n \in 1..(MaxEntries - TotalSize(plugins)) :
              \E ep \in EntryPointsOfSize(n) : Install(ep)
    \/ Discover

SpecDiscovery == Init /\ [][NextDiscovery]_vars

EPs == plugins

\* the places of the conforming elements of the factories that return
Conforming ==
    {at \in (1..Len(EPs)) \X (1..MaxEntries) :
        /\ ~EPs[at[1]].raises
        /\ at[2] <= Len(EPs[at[1]].elements)
        /\ EPs[at[1]].elements[at[2]].conforming}

\* the places of the non-conforming elements of the factories that return
NonConforming ==
    {at \in (1..Len(EPs)) \X (1..MaxEntries) :
        /\ ~EPs[at[1]].raises
        /\ at[2] <= Len(EPs[at[1]].elements)
        /\ ~EPs[at[1]].elements[at[2]].conforming}

Raising == {i \in 1..Len(EPs) : EPs[i].raises}

Before(a, b) == a[1] < b[1] \/ (a[1] = b[1] /\ a[2] < b[2])

\* C3: discovery returns exactly the conforming elements of the factories
\* that did not raise, in their order, each in a proxy with the name and the
\* version of its package, and warns once for each factory that raised, with
\* the error's type and message, and once for each non-conforming element.
C3_DiscoveryIsolatesFailures ==
    discovered.called =>
        LET results == discovered.results
            warned == discovered.warned
        IN  /\ {results[k].element : k \in 1..Len(results)} = Conforming
            /\ \A k \in 1..(Len(results) - 1) :
                  Before(results[k].element, results[k + 1].element)
            /\ \A k \in 1..Len(results) :
                  /\ results[k].package_name = EPs[results[k].element[1]].dist.name
                  /\ results[k].package_version
                        = EPs[results[k].element[1]].dist.version
            /\ Len(warned) = Cardinality(Raising) + Cardinality(NonConforming)
            /\ \A i \in Raising :
                  PluginWarning(EPs[i].dist, EPs[i].error) \in Range(warned)
            /\ Cardinality({k \in 1..Len(warned) : warned[k].type = "TypeError"})
                  = Cardinality(NonConforming)

\* three entry points, the second raising; a factory returning a mapping, a
\* non-mapping and a mapping is the other case
C3_Witness ==
    /\ discovered.called
    /\ Len(EPs) = 3
    /\ EPs[2].raises
    /\ EPs[1].dist # EPs[3].dist
    /\ Len(discovered.results) = 2
    /\ discovered.results[1].element = <<1, 1>>
    /\ discovered.results[2].element = <<3, 1>>
    /\ Len(discovered.warned) = 1
=============================================================================
